---- MODULE Spec2Model ----
(***************************************************************************)
(* A model of the valkey cluster proxy: one client session (reader task,   *)
(* writer task, backQ, response heap, MULTI buffer), the backend           *)
(* connection it leases for a request, and the dispatcher's topology       *)
(* refresh loop with the slot table it installs.                           *)
(*                                                                         *)
(* The specifications share the variables:                                 *)
(*   Spec        the session: ReadingLoop and WritingLoop of one client    *)
(*               that pipelines its commands                               *)
(*   SpecSync    the same session with a client that sends its next        *)
(*               command only once the previous one was answered           *)
(*   SpecWriter  the writer alone, fed responses in every arrival order    *)
(*   SpecReload  the dispatcher: slotsReloadLoop, TriggerReloadSlots,      *)
(*               handleSlotInfoChanged and concurrent slot lookups         *)
(*   FairSpecReload  SpecReload with the loop and Run scheduled fairly     *)
(*   SpecBackend one BackendServer serving one Request after the other     *)
(*   SpecDoReload  doReload's rewrite of what CLUSTER SLOTS returned       *)
(*   SpecTx      the reader alone, sent the commands of transactions       *)
(*   SpecShared  two sessions making Requests of one BackendServer         *)
(***************************************************************************)
EXTENDS Integers, Sequences, FiniteSets, TLC

\* ------------------------------------------------------------------ bounds
\* commands a pipelining client sends in Spec
MaxCmds == 2
\* commands a client that awaits each reply sends in SpecSync
MaxSyncCmds == 4
\* keys of a multi-key command / write endpoints of a fan-out
MaxSubs == 2
\* pipelined requests whose responses SpecWriter delivers in any order
MaxReqs == 3
\* TriggerReloadSlots calls made by sessions in SpecReload
MaxTriggers == 3
\* commands read from the client in SpecTx
MaxTxCmds == 6
\* commands the sessions of SpecShared send between them
MaxSharedReqs == 3
\* Request calls made of one BackendServer in SpecBackend
MaxBackendReqs == 4
\* nodes CLUSTER SLOTS lists for a range besides its master, in SpecDoReload
MaxReplicas == 2
\* ranges CLUSTER SLOTS lists in SpecDoReload
MaxSlotInfos == 1

NULL == "nil"

\* --------------------------------------------------------------- variables
VARIABLES
  \* Session (src/unnamed/part_000:29-45)
  auth,          \* s.auth
  reqSeq,        \* s.reqSeq
  rspSeq,        \* s.rspSeq
  backQ,         \* s.backQ: the PipelineResponses in the channel, oldest first
  backQClosed,   \* close(s.backQ) has happened
  closed,        \* s.closed
  reqWg,         \* counter of s.reqWg
  rspHeap,       \* s.rspHeap: the set of responses held back
  multiCmd,      \* s.multiCmd: [nil, cmds], the buffered commands when not nil
  multiCmdErr,   \* s.multiCmdErr
  subDone,       \* per seq, the subSeqs the coordinator (parentCmd) has received
  readerPc,      \* position of ReadingLoop
  writerPc,      \* position of WritingLoop
  closeSignal,   \* counter of s.closeSignal
  password,      \* ValkeyConn.password, the configured password
  \* what the outside observes of the session
  written,       \* the seqs whose replies were written to the client, in order
  nRead,         \* commands ReadCommand has returned so far
  lastCmd,       \* the last command handed to handle
  lastReply,     \* the reply handle answered it with locally, if it did
  forwarded,     \* ids (nRead at receipt) of the commands given to a backend connection
  lastHandled,   \* the response handleResp looked at last, and what it did
  pending,       \* SpecWriter: responses of the pipelined requests not yet arrived
  \* Dispatcher (src/proxy/dispatcher.go:47-58)
  slotReloadChan,  \* number of signals in d.slotReloadChan (capacity 1)
  loopPc,          \* position of slotsReloadLoop
  rangeTimer,      \* the channel of time.After(d.slotReloadInterval) the loop ranges over
  slotInfoChan,    \* the snapshot being handed over d.slotInfoChan, or NULL
  slotTable,       \* d.slotTable: slot -> SlotInfo
  lockHeld,        \* d.lock is held by handleSlotInfoChanged
  installing,      \* the SlotInfo records handleSlotInfoChanged still has to apply
  installFrom,     \* the slot table when the running install took the lock
  installAll,      \* the snapshot the running install applies
  pool,            \* endpoints that have a pool in d.backendServerPool
  lastLookup,      \* the last slot lookup a session made and the table it saw
  triggers,        \* TriggerReloadSlots calls made so far
  unserved,        \* TriggerReloadSlots calls since the loop last took a signal
  reloads,         \* reloadTopology attempts made by the loop
  reloadErr,       \* the error of the loop's last reloadTopology, NULL when none
  txHist,          \* what the client sent since the MULTI that opened a transaction
  authSent,        \* the client has sent AUTH with the configured password
  writeFailed,     \* a write to the client connection has failed
  \* BackendServer (src/proxy/backend.go:15-22)
  backend,         \* one BackendServer tr, used for one Request after the other
  lastReq,         \* the last Request made of it: the state before and the result
  nReqs,           \* Request calls made of it
  sessions,        \* SpecShared: the sessions that lease it, each [pc, reqWg, backQ, closed]
  \* doReload (src/proxy/dispatcher.go:153-237)
  reloadIn,        \* what doReload read from the startup node, and the configuration
  reloadOut        \* the slotInfos doReload returned, <<>> before it has

sessionVars == <<auth, reqSeq, rspSeq, backQ, backQClosed, closed, reqWg, rspHeap,
                 multiCmd, multiCmdErr, subDone, readerPc, writerPc, closeSignal,
                 password, written, nRead, lastCmd, lastReply, forwarded, lastHandled,
                 pending, txHist, authSent, writeFailed>>

reloadVars == <<loopPc, rangeTimer, slotInfoChan, slotTable, lockHeld, installing,
                installFrom, installAll, pool, lastLookup, triggers, unserved, reloads, reloadErr>>

backendVars == <<backend, lastReq, nReqs, sessions>>

doReloadVars == <<reloadIn, reloadOut>>

vars == <<sessionVars, slotReloadChan, reloadVars, backendVars, doReloadVars>>

\* ------------------------------------------------------- values and inputs
\* resp.Data: a type byte and a string
Data(t, str) == [T |-> t, String |-> str]
T_Error == "-"
T_SimpleString == "+"
\* a nil *resp.Data / *resp.Object
NoData == Data("", "")

OK == "OK"
MOVED == "MOVED"
ASK == "ASK"
AUTH_CMD_ERR == "ERR invalid password"
UNKNOWN_CMD_ERR == "ERR unknown command"
ARGUMENTS_ERR == "ERR wrong number of arguments"
NOAUTH_ERR == "NOAUTH Authentication required."

\* the passwords a deployment may configure; "" disables proxy-side AUTH
Passwords == {"", "secret"}

\* the commands a client may send (cmd.Args, name already upper-cased)
Commands ==
  { [name |-> "AUTH",   args |-> <<"secret">>],
    [name |-> "AUTH",   args |-> <<"wrong">>],
    [name |-> "AUTH",   args |-> <<>>],
    [name |-> "MULTI",  args |-> <<>>],
    [name |-> "EXEC",   args |-> <<>>],
    [name |-> "SELECT", args |-> <<"0">>],
    [name |-> "PING",   args |-> <<>>],
    [name |-> "BOGUS",  args |-> <<>>],
    [name |-> "KEYS",   args |-> <<"*">>],
    [name |-> "MGET",   args |-> [i \in 1..MaxSubs |-> "k"]],
    [name |-> "GET",    args |-> <<"a">>],
    [name |-> "SET",    args |-> <<"a", "v">>] }

\* The bytes of a reply matter to the proxy only in whether they start with
\* -MOVED or -ASK: a response carries every other reply as Opaque, and the
\* text of a reply made by the proxy itself is kept in lastReply.
Opaque == Data("?", "")
Payload(data) ==
  IF data.T = T_Error /\ data.String \in {MOVED, ASK} THEN data ELSE Opaque

\* replies a backend may give to a forwarded command
BackendReplies == { Opaque, Data(T_Error, MOVED), Data(T_Error, ASK) }

\* how one Schedule call goes: BackendServerPool.Get fails; or the leased
\* connection fails at its missing writer, its write, its flush or its read
\* (and the reconnect of tryRecover succeeds or not); or a reply is read
IoErrors == {"nilw", "werr", "ferr", "rerr"}
SchedOutcomes ==
  { [get |-> FALSE, io |-> "none", recon |-> FALSE, reply |-> NoData] }
  \cup { [get |-> TRUE, io |-> e, recon |-> b, reply |-> NoData] :
           e \in IoErrors, b \in BOOLEAN }
  \cup { [get |-> TRUE, io |-> "ok", recon |-> FALSE, reply |-> d] :
           d \in BackendReplies }

\* sequences of length n over S
SeqsOfLen(S, n) == [1..n -> S]

\* ------------------------------------------------ command classification
CMD_FLAG_READ == "READ"
CMD_FLAG_READ_ALL == "READ_ALL"
CMD_FLAG_GENERAL == "GENERAL"
CMD_FLAG_UNKNOWN == "UNKNOWN"

\* the class of a command (spec 4.2.1): single-key reads and writes are the
\* two queueable classes
CmdFlag(cmd) ==
  CASE cmd.name = "GET"  -> CMD_FLAG_READ
    [] cmd.name = "SET"  -> CMD_FLAG_GENERAL
    [] cmd.name = "KEYS" -> CMD_FLAG_READ_ALL
    [] OTHER             -> CMD_FLAG_UNKNOWN

CmdAuthRequired(cmd) == cmd.name # "AUTH"
CmdUnknown(cmd) == cmd.name = "BOGUS"
CmdReadAll(cmd) == CmdFlag(cmd) = CMD_FLAG_READ_ALL
CmdReadOnly(cmd) == cmd.name \in {"GET", "MGET", "KEYS"}
\* IsMultiCmd: <<yes, numKeys>>
IsMultiCmd(cmd) ==
  IF cmd.name = "MGET" THEN <<TRUE, Len(cmd.args)>> ELSE <<FALSE, 0>>

\* ---------------------------------------------------------- ValkeyConn
\* ValkeyConn.Auth
Auth(pw, given) == pw = given

\* ------------------------------------------------ requests and responses
\* PipelineRequest: parent is the number of sub-requests of parentCmd, 0 when
\* parentCmd is nil
PipelineRequest(seq, subSeq, parent) ==
  [seq |-> seq, subSeq |-> subSeq, parent |-> parent]
\* PipelineResponse
PipelineResponse(ctx, rsp, err) == [ctx |-> ctx, rsp |-> rsp, err |-> err]

\* ------------------------------------------------------- BackendServer
\* a BackendServer is [inflight, w]: the inflight list and whether the
\* writer tr.w exists (NULL after a failed initial dial); writes and reads
\* count the commands written to and the replies read from tr.conn
BackendServer(inflight, w) ==
  [inflight |-> inflight, w |-> w, writes |-> 0, reads |-> 0]

\* writeToBackend: [tr, err]
writeToBackend(tr, plReq, o) ==
  LET pushed == [tr EXCEPT !.inflight = Append(@, plReq)]
      err == IF tr.w = NULL THEN "init task runner connection error"
             ELSE IF o.io = "werr" THEN "write error"
             ELSE IF o.io = "ferr" THEN "flush error"
             ELSE NULL
  IN [ tr  |-> IF err = NULL THEN [pushed EXCEPT !.writes = @ + 1] ELSE pushed,
       err |-> err ]

\* cleanupInflight that answers no inflight request
cleanupInflight_Silent(tr, err) ==
  [ tr |-> [tr EXCEPT !.inflight = <<>>], sent |-> <<>> ]

\* cleanupInflight: [tr, sent], sent being the error responses put on the
\* backQ of each inflight request, front first
cleanupInflight(tr, err) ==
  [ tr   |-> [tr EXCEPT !.inflight = <<>>],
    sent |-> [i \in 1..Len(tr.inflight) |->
                PipelineResponse(tr.inflight[i], NoData, err)] ]

\* tryRecover: [tr, sent, err, dials], dials being the calls of
\* valkeyConn.Conn; initRWConn gives tr a new connection
tryRecover(tr, err, o) ==
  LET c == cleanupInflight(tr, err) IN
  IF o.recon
    THEN [tr |-> [c.tr EXCEPT !.w = "conn", !.writes = 0, !.reads = 0],
          sent |-> c.sent, err |-> NULL, dials |-> 1]
    ELSE [tr |-> c.tr, sent |-> c.sent, err |-> "dial error", dials |-> 1]

\* a Request that leaves the answered request in the inflight list
Request_KeepInflight(tr, req, o) ==
  LET wr == writeToBackend(tr, req, o) IN
  IF wr.err # NULL \/ o.io = "rerr"
    THEN LET rc == tryRecover(wr.tr, IF wr.err # NULL THEN wr.err ELSE "read error", o) IN
         [ tr |-> rc.tr, sent |-> rc.sent,
           rsp |-> PipelineResponse(req, NoData, NULL),
           err |-> IF rc.err # NULL THEN rc.err
                   ELSE IF wr.err # NULL THEN wr.err ELSE "read error",
           dials |-> rc.dials ]
  ELSE [ tr |-> [wr.tr EXCEPT !.reads = @ + 1],
         sent |-> <<>>,
         rsp |-> PipelineResponse(req, o.reply, NULL),
         err |-> NULL, dials |-> 0 ]

\* BackendServer.Request: [tr, sent, rsp, err, dials]; rsp is meaningful when
\* err = NULL
Request(tr, req, o) ==
  LET wr == writeToBackend(tr, req, o) IN
  IF wr.err # NULL
    THEN LET rc == tryRecover(wr.tr, wr.err, o) IN
         [ tr |-> rc.tr, sent |-> rc.sent,
           rsp |-> PipelineResponse(req, NoData, NULL),
           err |-> IF rc.err # NULL THEN rc.err ELSE wr.err,
           dials |-> rc.dials ]
  ELSE IF o.io = "rerr"
    THEN LET rc == tryRecover(wr.tr, "read error", o) IN
         [ tr |-> rc.tr, sent |-> rc.sent,
           rsp |-> PipelineResponse(req, NoData, NULL),
           err |-> IF rc.err # NULL THEN rc.err ELSE "read error",
           dials |-> rc.dials ]
  ELSE [ tr |-> [wr.tr EXCEPT !.inflight = Tail(@), !.reads = @ + 1],
         sent |-> <<>>,
         rsp |-> PipelineResponse(Head(wr.tr.inflight), o.reply, NULL),
         err |-> NULL, dials |-> 0 ]

\* the connection BackendServerPool.Get leases: nothing inflight, and no
\* writer when its dial failed
Lease(o) == BackendServer(<<>>, IF o.io = "nilw" THEN NULL ELSE "conn")

\* ------------------------------------------------- Session, reader side
\* The reader's part of the session, threaded through one handle call.
ReaderState ==
  [ auth |-> auth, reqSeq |-> reqSeq, reqWg |-> reqWg, backQ |-> backQ,
    multiCmd |-> multiCmd, multiCmdErr |-> multiCmdErr, forwarded |-> forwarded,
    lastReply |-> NoData ]

NilMultiCmd == [nil |-> TRUE, cmds |-> <<>>]

\* checkAuth of a proxy that asks no password of anyone
checkAuth_Open(r) == TRUE

\* checkAuth
checkAuth(r) == r.auth \/ Auth(password, "")

\* handleErrorCmd
handleErrorCmd(r, msg) ==
  [r EXCEPT !.reqSeq = @ + 1,
            !.reqWg = @ + 1,
            !.backQ = Append(@, PipelineResponse(PipelineRequest(r.reqSeq, 0, 0),
                                                 Payload(Data(T_Error, msg)), NULL)),
            !.lastReply = Data(T_Error, msg)]

\* handleSimpleStringCmd
handleSimpleStringCmd(r, msg) ==
  [r EXCEPT !.reqWg = @ + 1,
            !.reqSeq = @ + 1,
            !.backQ = Append(@, PipelineResponse(PipelineRequest(r.reqSeq, 0, 0),
                                                 Payload(Data(T_SimpleString, msg)),
                                                 NULL)),
            !.lastReply = Data(T_SimpleString, msg)]

\* Session.Schedule of request req of command id, whose reqWg.Add was done by
\* the caller
Schedule(r, id, req, o) ==
  IF ~o.get
    THEN handleErrorCmd(r, "ERR get backend")
    ELSE LET q == Request(Lease(o), req, o)
             r1 == [r EXCEPT !.backQ = @ \o q.sent, !.forwarded = @ \cup {id}]
         IN IF q.err = NULL
              THEN [r1 EXCEPT !.backQ = Append(@, q.rsp)]
              ELSE handleErrorCmd(r1, "ERR backend")

\* handleGeneralCmd
handleGeneralCmd(r, id, o) ==
  LET plReq == PipelineRequest(r.reqSeq, 0, 0)
      r1 == [r EXCEPT !.reqSeq = @ + 1, !.reqWg = @ + 1]
  IN Schedule(r1, id, plReq, o[1])

\* the loop of handleMultiKeyCmd and of handleReadAll from sub-request i on:
\* n sub-requests sharing seq
RECURSIVE ScheduleSubs(_, _, _, _, _, _)
ScheduleSubs(r, id, seq, i, n, o) ==
  IF i >= n THEN r
  ELSE LET plReq == PipelineRequest(seq, i, n)
           r1 == [r EXCEPT !.reqWg = @ + 1]
       IN ScheduleSubs(Schedule(r1, id, plReq, o[i + 1]), id, seq, i + 1, n, o)

\* handleMultiKeyCmd
handleMultiKeyCmd(r, id, numKeys, o) ==
  ScheduleSubs([r EXCEPT !.reqSeq = @ + 1], id, r.reqSeq, 0, numKeys, o)

\* handleReadAll: one sub-request per entry of slotTable.ServerSlots(), of
\* which there are Len(o)
handleReadAll(r, id, o) ==
  ScheduleSubs([r EXCEPT !.reqSeq = @ + 1], id, r.reqSeq, 0, Len(o), o)

\* handleAuthCmd that drops the authentication on a wrong password
handleAuthCmd_Drop(r, cmd) ==
  IF Len(cmd.args) = 1 /\ Auth(password, cmd.args[1])
    THEN [handleSimpleStringCmd(r, OK) EXCEPT !.auth = TRUE]
    ELSE [handleErrorCmd(r, AUTH_CMD_ERR) EXCEPT !.auth = FALSE]

\* handleAuthCmd
handleAuthCmd(r, cmd) ==
  IF Len(cmd.args) = 1
    THEN IF Auth(password, cmd.args[1])
           THEN [handleSimpleStringCmd(r, OK) EXCEPT !.auth = TRUE]
           ELSE handleErrorCmd(r, AUTH_CMD_ERR)
    ELSE handleErrorCmd(r, ARGUMENTS_ERR)

\* NewMultiCmdExec(s).Exec(): the buffered commands are sent to their
\* backends one by one; x.sent of them were sent when it returned, with an
\* error unless x.ok
Exec(r, x) ==
  [r EXCEPT !.forwarded = @ \cup { r.multiCmd.cmds[i].id : i \in 1..x.sent }]

ExecOutcomes(r) ==
  LET n == Len(r.multiCmd.cmds) IN
  { [ok |-> TRUE, sent |-> n] } \cup { [ok |-> FALSE, sent |-> k] : k \in 0..n }

\* handleMultiCmd, the branch of MULTI
handleMultiCmd_MULTI(r) ==
  IF ~r.multiCmd.nil
    THEN handleErrorCmd(r, "ERR MULTI calls can not be nested")
    ELSE handleSimpleStringCmd(
           [r EXCEPT !.multiCmd = [nil |-> FALSE, cmds |-> <<>>]], OK)

\* the branch of EXEC that leaves multiCmdErr set when it aborts
handleMultiCmd_EXEC_KeepErr(r, x) ==
  LET r1 == IF r.multiCmd.nil THEN
              handleErrorCmd(r, "ERR EXEC without MULTI")
            ELSE IF r.multiCmdErr THEN
              handleErrorCmd(r, "EXECABORT Transaction discarded")
            ELSE LET e == Exec(r, x) IN
              IF ~x.ok
                THEN handleErrorCmd(e, "ERR EXEC error")
                ELSE [e EXCEPT !.reqWg = @ + 1,
                               !.reqSeq = @ + 1,
                               !.backQ = Append(@, PipelineResponse(
                                           PipelineRequest(e.reqSeq, 0, 0),
                                           Payload(Data("*", "exec replies")),
                                           NULL)),
                               !.lastReply = Data("*", "exec replies")]
  IN [r1 EXCEPT !.multiCmd = NilMultiCmd]

\* handleMultiCmd, the branch of EXEC
handleMultiCmd_EXEC(r, x) ==
  LET r1 == IF r.multiCmd.nil THEN
              handleErrorCmd(r, "ERR EXEC without MULTI")
            ELSE IF r.multiCmdErr THEN
              handleErrorCmd([r EXCEPT !.multiCmdErr = FALSE],
                             "EXECABORT Transaction discarded")
            ELSE LET e == Exec(r, x) IN
              IF ~x.ok
                THEN handleErrorCmd(e, "ERR EXEC error")
                ELSE [e EXCEPT !.reqWg = @ + 1,
                               !.reqSeq = @ + 1,
                               !.backQ = Append(@, PipelineResponse(
                                           PipelineRequest(e.reqSeq, 0, 0),
                                           Payload(Data("*", "exec replies")),
                                           NULL)),
                               !.lastReply = Data("*", "exec replies")]
  IN [r1 EXCEPT !.multiCmd = NilMultiCmd]

\* handleMultiCmd, the branch of a command inside a transaction
handleMultiCmd_other(r, id, cmd) ==
  IF CmdFlag(cmd) = CMD_FLAG_GENERAL \/ CmdFlag(cmd) = CMD_FLAG_READ
    THEN handleSimpleStringCmd(
           [r EXCEPT !.multiCmd.cmds = Append(@, [id |-> id, name |-> cmd.name])],
           "QUEUED")
    ELSE handleErrorCmd([r EXCEPT !.multiCmdErr = TRUE], UNKNOWN_CMD_ERR)

\* handleMultiCmd with an EXEC that does not look at multiCmdErr
handleMultiCmd_NoAbort(r, id, cmd, x) ==
  IF cmd.name = "MULTI" THEN handleMultiCmd_MULTI(r)
  ELSE IF cmd.name = "EXEC"
    THEN handleMultiCmd_EXEC([r EXCEPT !.multiCmdErr = FALSE], x)
  ELSE handleMultiCmd_other(r, id, cmd)

\* handleMultiCmd
handleMultiCmd(r, id, cmd, x) ==
  IF cmd.name = "MULTI" THEN handleMultiCmd_MULTI(r)
  ELSE IF cmd.name = "EXEC" THEN handleMultiCmd_EXEC(r, x)
  ELSE handleMultiCmd_other(r, id, cmd)

\* the branch of handle that cmd takes
Route(r, cmd) ==
  IF CmdAuthRequired(cmd) /\ ~checkAuth(r) THEN "noauth"
  ELSE IF cmd.name = "MULTI" \/ ~r.multiCmd.nil \/ cmd.name = "EXEC" THEN "multi"
  ELSE IF cmd.name = "AUTH" THEN "auth"
  ELSE IF cmd.name = "SELECT" THEN "select"
  ELSE IF cmd.name = "PING" THEN "ping"
  ELSE IF CmdUnknown(cmd) THEN "unknown"
  ELSE IF CmdReadAll(cmd) THEN "readall"
  ELSE IF IsMultiCmd(cmd)[1] /\ IsMultiCmd(cmd)[2] > 1 THEN "multikey"
  ELSE "general"

\* Session.handle of the command with the given id; o gives the outcome of
\* each Schedule call it makes and x that of Exec
handle(r, id, cmd, o, x) ==
  CASE Route(r, cmd) = "noauth"   -> handleErrorCmd(r, NOAUTH_ERR)
    [] Route(r, cmd) = "multi"    -> handleMultiCmd(r, id, cmd, x)
    [] Route(r, cmd) = "auth"     -> handleAuthCmd(r, cmd)
    [] Route(r, cmd) = "select"   -> handleSimpleStringCmd(r, OK)
    [] Route(r, cmd) = "ping"     -> handleSimpleStringCmd(r, "PONG")
    [] Route(r, cmd) = "unknown"  -> handleErrorCmd(r, UNKNOWN_CMD_ERR)
    [] Route(r, cmd) = "readall"  -> handleReadAll(r, id, o)
    [] Route(r, cmd) = "multikey" -> handleMultiKeyCmd(r, id, IsMultiCmd(cmd)[2], o)
    [] OTHER                      -> handleGeneralCmd(r, id, o)

\* the outcomes the environment may give the Schedule calls of one handle
ScheduleOutcomes(r, cmd) ==
  CASE Route(r, cmd) = "general"  -> SeqsOfLen(SchedOutcomes, 1)
    [] Route(r, cmd) = "multikey" -> SeqsOfLen(SchedOutcomes, IsMultiCmd(cmd)[2])
    [] Route(r, cmd) = "readall"  ->
         UNION { SeqsOfLen(SchedOutcomes, n) : n \in 1..MaxSubs }
    [] OTHER -> { <<>> }

\* the outcomes the environment may give Exec in one handle
HandleExecOutcomes(r, cmd) ==
  IF Route(r, cmd) = "multi" /\ cmd.name = "EXEC" /\ ~r.multiCmd.nil
     /\ ~r.multiCmdErr
    THEN ExecOutcomes(r)
    ELSE { [ok |-> TRUE, sent |-> 0] }

\* ------------------------------------------------------------ Dispatcher
\* capacity of d.slotReloadChan
SlotReloadChanCap == 1

\* TriggerReloadSlots with a send that always goes through
TriggerReloadSlots_Send(ch) == ch + 1

\* TriggerReloadSlots on a channel holding ch signals: a non-blocking send
TriggerReloadSlots(ch) == IF ch < SlotReloadChanCap THEN ch + 1 ELSE ch

\* ------------------------------------------------- Session, writer side
\* The writer's part of the session, threaded through one WritingLoop step.
WriterState ==
  [ rspSeq |-> rspSeq, closed |-> closed, rspHeap |-> rspHeap, reqWg |-> reqWg,
    subDone |-> subDone, written |-> written, slotReloadChan |-> slotReloadChan,
    lastHandled |-> lastHandled, writeFailed |-> writeFailed ]

\* a step of the writer ends in [w, err]
Result(w, err) == [w |-> w, err |-> err]

\* what handleResp did with a response
Handled(plRsp, expected, redirected, reload, err) ==
  [ seq |-> plRsp.ctx.seq, subSeq |-> plRsp.ctx.subSeq, parent |-> plRsp.ctx.parent,
    expected |-> expected, transportErr |-> plRsp.err # NULL,
    redirect |-> redirected, reload |-> reload, err |-> err, fromHeap |-> FALSE,
    reply |-> plRsp.rsp, wire |-> <<>>, substituted |-> FALSE ]
NotHandled ==
  [ seq |-> -1, subSeq |-> 0, parent |-> 0, expected |-> -1, transportErr |-> FALSE,
    redirect |-> "none", reload |-> FALSE, err |-> NULL, fromHeap |-> FALSE,
    reply |-> NoData, wire |-> <<>>, substituted |-> FALSE ]

\* Session.Close
Close(w) == [w EXCEPT !.closed = TRUE]

\* s.Write(buf) on the client connection succeeds or fails
Write(w, seq, buf) ==
  { Result([w EXCEPT !.written = Append(@, seq)], NULL),
    Result([w EXCEPT !.writeFailed = TRUE], "client write error") }

\* MultiCmd.CoalesceRsp: the single reply of a finished coordinator
CoalesceRsp == Opaque

\* writeResp; OnSubCmdFinished records the sub-response in the coordinator,
\* which is Finished when all its sub-requests have one
writeResp(w, plRsp) ==
  IF plRsp.ctx.parent # 0
    THEN LET w1 == [w EXCEPT !.subDone = @ \cup {<<plRsp.ctx.seq, plRsp.ctx.subSeq>>}]
             got == { p \in w1.subDone : p[1] = plRsp.ctx.seq }
         IN IF Cardinality(got) # plRsp.ctx.parent
              THEN { Result(w1, NULL) }
              ELSE Write([w1 EXCEPT !.rspSeq = @ + 1], plRsp.ctx.seq, CoalesceRsp)
    ELSE Write(w, plRsp.ctx.seq, plRsp.rsp)

\* how the exchange on the short-lived connection of redirect goes; the
\* write of ASKING and the read of its acknowledgement are made, and can
\* fail, for -ASK only
RedirectOutcomes == {"ok", "dial error", "write error", "read error"}
AskOutcomes == {"asking write error", "ack read error"}
RedirectOutcomesOf(ask) ==
  IF ask THEN RedirectOutcomes \cup AskOutcomes ELSE RedirectOutcomes

\* the steps of redirect before the one that fails, if any does
RedirectSteps(ask) ==
  IF ask THEN <<"dial", "write ASKING", "write cmd", "read ack", "read reply">>
         ELSE <<"dial", "write cmd", "read reply">>
FailingStep(ro) ==
  CASE ro = "dial error"         -> "dial"
    [] ro = "asking write error" -> "write ASKING"
    [] ro = "write error"        -> "write cmd"
    [] ro = "ack read error"     -> "read ack"
    [] ro = "read error"         -> "read reply"
    [] OTHER                     -> "none"
RECURSIVE StepsBefore(_, _)
StepsBefore(steps, failing) ==
  IF steps = <<>> \/ Head(steps) = failing THEN <<>>
  ELSE <<Head(steps)>> \o StepsBefore(Tail(steps), failing)

\* redirect that never sends ASKING
redirectWire_NoAsking(ask, ro) == StepsBefore(RedirectSteps(FALSE), FailingStep(ro))

\* redirect: what is done on the connection to the named server, in order
redirectWire(ask, ro) == StepsBefore(RedirectSteps(ask), FailingStep(ro))

\* redirect: the response after the exchange with the named server
redirect(plRsp, ask, ro) ==
  IF ro = "ok"
    THEN [plRsp EXCEPT !.err = NULL, !.rsp = Opaque]
    ELSE [plRsp EXCEPT !.err = ro]

\* handleResp: the set of results the environment allows
handleResp(w, plRsp) ==
  IF plRsp.ctx.seq # w.rspSeq
    THEN { Result([w EXCEPT !.lastHandled =
                     Handled(plRsp, w.rspSeq, "none", FALSE, "panic")], "panic") }
  ELSE
    LET w1 == [w EXCEPT !.reqWg = @ - 1,
                        !.rspSeq = IF plRsp.ctx.parent = 0 THEN @ + 1 ELSE @]
        isErr == plRsp.err = NULL /\ plRsp.rsp.T = T_Error
        kind == IF plRsp.err # NULL THEN "none"
                ELSE IF isErr /\ plRsp.rsp.String = MOVED THEN "moved"
                ELSE IF isErr /\ plRsp.rsp.String = ASK THEN "ask"
                ELSE "none"
        reload == plRsp.err # NULL \/ kind = "moved"
        w2 == IF reload
                THEN [w1 EXCEPT !.slotReloadChan = TriggerReloadSlots(@)]
                ELSE w1
        Redirected(ask) ==
          { [p |-> redirect(plRsp, ask, ro), wire |-> redirectWire(ask, ro)] :
            ro \in RedirectOutcomesOf(ask) }
        after == IF plRsp.err # NULL
                   THEN { [p |-> [plRsp EXCEPT !.rsp = Payload(Data(T_Error, plRsp.err))],
                           wire |-> <<>>] }
                 ELSE IF kind = "moved" THEN Redirected(FALSE)
                 ELSE IF kind = "ask" THEN Redirected(TRUE)
                 ELSE { [p |-> plRsp, wire |-> <<>>] }
        Finish(a) ==
          LET p == a.p
              w3 == [w2 EXCEPT !.lastHandled =
                       [Handled(plRsp, w.rspSeq, kind, reload, p.err)
                          EXCEPT !.wire = a.wire,
                                 !.substituted = (p.err = NULL /\ p.rsp # plRsp.rsp)]]
          IN IF p.err # NULL THEN { Result(w3, p.err) }
             ELSE IF ~w3.closed THEN writeResp(w3, p)
             ELSE { Result(w3, NULL) }
    IN UNION { Finish(a) : a \in after }

\* PipelineResponseHeap.Top: a response of least seq
Tops(heap) == { p \in heap : \A q \in heap : p.ctx.seq <= q.ctx.seq }

\* a result of handleResp for a response popped from the heap
Popped(res) == [res EXCEPT !.w.lastHandled.fromHeap = TRUE]

\* a loop over the heap that pops its top without comparing it with rspSeq
DrainHeap_Unchecked(w) ==
  IF w.rspHeap = {} THEN { Result(w, NULL) }
  ELSE UNION { { Popped(res) : res \in handleResp([w EXCEPT !.rspHeap = @ \ {p}], p) } :
               p \in Tops(w.rspHeap) }

\* the loop of handleRespPipeline over the heap
RECURSIVE DrainHeap(_)
DrainHeap(w) ==
  IF \A p \in Tops(w.rspHeap) : p.ctx.seq # w.rspSeq
    THEN { Result(w, NULL) }
    ELSE UNION { UNION { IF res.err # NULL THEN { Popped(res) }
                         ELSE DrainHeap(Popped(res).w) :
                         res \in handleResp([w EXCEPT !.rspHeap = @ \ {p}], p) } :
                 p \in Tops(w.rspHeap) }

\* handleRespPipeline without the heap: every response is handled as it arrives
handleRespPipeline_NoHeap(w, plRsp) == handleResp(w, plRsp)

\* handleRespPipeline
handleRespPipeline(w, plRsp) ==
  IF plRsp.ctx.seq # w.rspSeq
    THEN { Result([w EXCEPT !.rspHeap = @ \cup {plRsp}], NULL) }
    ELSE UNION { IF res.err # NULL THEN { res } ELSE DrainHeap(res.w) :
                 res \in handleResp(w, plRsp) }

\* ------------------------------------------- the client's commands so far
\* AUTH with the configured password
SendsPassword(cmd) == cmd.name = "AUTH" /\ cmd.args = <<password>>

\* Since the MULTI that opened the transaction the client is in: whether it
\* sent another MULTI, and whether it sent another command that is not
\* queueable; and whether an earlier transaction had such a command.
\* Commands refused for want of AUTH do not count.
NoTx == [open |-> FALSE, nested |-> FALSE, other |-> FALSE, earlierBad |-> FALSE]
TxNext(h, cmd) ==
  IF CmdAuthRequired(cmd) /\ password # "" /\ ~authSent THEN h
  ELSE IF cmd.name = "MULTI"
    THEN IF h.open THEN [h EXCEPT !.nested = TRUE]
         ELSE [h EXCEPT !.open = TRUE, !.nested = FALSE, !.other = FALSE]
  ELSE IF cmd.name = "EXEC"
    THEN [NoTx EXCEPT !.earlierBad = h.earlierBad \/ (h.open /\ h.other)]
  ELSE IF h.open /\ CmdFlag(cmd) \notin {CMD_FLAG_GENERAL, CMD_FLAG_READ}
    THEN [h EXCEPT !.other = TRUE]
  ELSE h

\* --------------------------------------------------------- initial states
NoCmd == [name |-> "", args |-> <<>>]

\* a session after its construction and Prepare, but for the password
\* configured and the requests made
NewSession ==
  /\ auth = FALSE
  /\ rspSeq = 0
  /\ backQ = <<>>
  /\ backQClosed = FALSE
  /\ closed = FALSE
  /\ rspHeap = {}
  /\ multiCmd = NilMultiCmd
  /\ multiCmdErr = FALSE
  /\ subDone = {}
  /\ readerPc = "read"
  /\ writerPc = "loop"
  /\ closeSignal = 1
  /\ written = <<>>
  /\ nRead = 0
  /\ lastCmd = NoCmd
  /\ lastReply = NoData
  /\ forwarded = {}
  /\ lastHandled = NotHandled
  /\ txHist = NoTx
  /\ authSent = FALSE
  /\ writeFailed = FALSE

Servers == {"a", "b"}
Slots == {0, 1}
\* SlotInfo
SlotInfo(start, end, write, read) ==
  [start |-> start, end |-> end, write |-> write, read |-> read]

\* a dispatcher after NewDispatcher and InitSlotTable, before Run
InitDispatcher ==
  /\ slotReloadChan = 0
  /\ loopPc = "range"
  /\ rangeTimer = "armed"
  /\ slotInfoChan = <<>>
  /\ slotTable = [s \in Slots |-> SlotInfo(s, s, "a", <<"a">>)]
  /\ lockHeld = FALSE
  /\ installing = <<>>
  /\ installFrom = slotTable
  /\ installAll = <<>>
  /\ pool = {}
  /\ lastLookup = [slot |-> -1, server |-> NULL, partial |-> FALSE]
  /\ triggers = 0
  /\ unserved = 0
  /\ reloads = 0
  /\ reloadErr = NULL

\* no Request was made yet
NoRequest ==
  [ before |-> BackendServer(<<>>, NULL), req |-> PipelineRequest(-1, 0, 0),
    sent |-> <<>>, err |-> NULL, dials |-> 0, io |-> "none", recon |-> FALSE ]

\* the sessions that share the BackendServer: the position of ReadingLoop,
\* the counter of reqWg, the responses waiting in backQ, whether backQ was
\* closed, and the commands handled
SessionIds == {1, 2}
NewSharedSession ==
  [pc |-> "read", reqWg |-> 0, backQ |-> <<>>, closed |-> FALSE, nCmds |-> 0]
NoSessions == [id \in SessionIds |-> NewSharedSession]

\* a BackendServer after NewBackendServer, whose dial went well
InitBackend ==
  /\ backend = BackendServer(<<>>, "conn")
  /\ lastReq = NoRequest
  /\ nReqs = 0
  /\ sessions = NoSessions

\* no doReload is under way
NoReload ==
  [ slotInfos |-> <<>>, aliveNodes |-> {}, readPrefer |-> 0, localIPPrefix |-> "" ]
InitDoReload ==
  /\ reloadIn = NoReload
  /\ reloadOut = <<>>

\* ----------------------------------------------------- the session's steps
\* ReadingLoop: ReadCommand returns a command and handle deals with it
ReadAndHandleOf(cmds) ==
  /\ readerPc = "read"
  /\ \E cmd \in cmds :
       \E o \in ScheduleOutcomes(ReaderState, cmd) :
         \E x \in HandleExecOutcomes(ReaderState, cmd) :
           \E r \in { handle(ReaderState, nRead, cmd, o, x) } :
             /\ auth' = r.auth
             /\ reqSeq' = r.reqSeq
             /\ reqWg' = r.reqWg
             /\ backQ' = r.backQ
             /\ multiCmd' = r.multiCmd
             /\ multiCmdErr' = r.multiCmdErr
             /\ forwarded' = r.forwarded
             /\ lastCmd' = cmd
             /\ lastReply' = r.lastReply
             /\ txHist' = TxNext(txHist, cmd)
             /\ authSent' = (authSent \/ SendsPassword(cmd))
  /\ nRead' = nRead + 1
  /\ UNCHANGED <<rspSeq, backQClosed, closed, rspHeap, subDone, readerPc, writerPc,
                 closeSignal, password, written, lastHandled, pending, writeFailed,
                 slotReloadChan, reloadVars, backendVars, doReloadVars>>

ReadAndHandle == ReadAndHandleOf(Commands)

\* a client that sends its commands without awaiting the replies
ReadCommand ==
  /\ nRead < MaxCmds
  /\ ReadAndHandle

\* a client that sends a command once it has the reply to the one before
ReadCommandSync ==
  /\ nRead < MaxSyncCmds
  /\ Len(written) = nRead
  /\ ReadAndHandle

\* ReadingLoop: ReadCommand returns an error (EOF, a closed connection, a
\* malformed command) and the loop is left
ReadError ==
  /\ readerPc = "read"
  /\ readerPc' = "wgWait"
  /\ UNCHANGED <<auth, reqSeq, rspSeq, backQ, backQClosed, closed, reqWg, rspHeap,
                 multiCmd, multiCmdErr, subDone, writerPc, closeSignal, password,
                 written, nRead, lastCmd, lastReply, forwarded, lastHandled, pending, txHist, authSent, writeFailed,
                 slotReloadChan, reloadVars, backendVars, doReloadVars>>

\* ReadingLoop: s.reqWg.Wait() returns and backQ is closed
ReqWgWait ==
  /\ readerPc = "wgWait"
  /\ reqWg = 0
  /\ backQClosed' = TRUE
  /\ readerPc' = "sigWait"
  /\ UNCHANGED <<auth, reqSeq, rspSeq, backQ, closed, reqWg, rspHeap,
                 multiCmd, multiCmdErr, subDone, writerPc, closeSignal, password,
                 written, nRead, lastCmd, lastReply, forwarded, lastHandled, pending, txHist, authSent, writeFailed,
                 slotReloadChan, reloadVars, backendVars, doReloadVars>>

\* ReadingLoop: s.closeSignal.Wait() returns, and ReadingLoop with it
CloseSignalWait ==
  /\ readerPc = "sigWait"
  /\ closeSignal = 0
  /\ readerPc' = "returned"
  /\ UNCHANGED <<auth, reqSeq, rspSeq, backQ, backQClosed, closed, reqWg, rspHeap,
                 multiCmd, multiCmdErr, subDone, writerPc, closeSignal, password,
                 written, nRead, lastCmd, lastReply, forwarded, lastHandled, pending, txHist, authSent, writeFailed,
                 slotReloadChan, reloadVars, backendVars, doReloadVars>>

\* the writer's variables after one response went through handleRespPipeline
\* and, on an error, Close
WriterStep(res) ==
  LET w == IF res.err # NULL THEN Close(res.w) ELSE res.w IN
  /\ rspSeq' = w.rspSeq
  /\ closed' = w.closed
  /\ rspHeap' = w.rspHeap
  /\ reqWg' = w.reqWg
  /\ subDone' = w.subDone
  /\ written' = w.written
  /\ slotReloadChan' = w.slotReloadChan
  /\ lastHandled' = w.lastHandled
  /\ writeFailed' = w.writeFailed
  /\ writerPc' = IF res.err = "panic" THEN "panic" ELSE writerPc

\* WritingLoop: one response is received from backQ and handled
WritingLoop ==
  /\ writerPc = "loop"
  /\ backQ # <<>>
  /\ \E res \in handleRespPipeline(WriterState, Head(backQ)) : WriterStep(res)
  /\ backQ' = Tail(backQ)
  /\ UNCHANGED <<auth, reqSeq, backQClosed, multiCmd, multiCmdErr, readerPc,
                 closeSignal, password, nRead, lastCmd, lastReply, forwarded, pending, txHist, authSent,
                 reloadVars, backendVars, doReloadVars>>

\* WritingLoop: backQ is closed and drained; the deferred closeSignal.Done
\* and Close run
WritingLoopExit ==
  /\ writerPc = "loop"
  /\ backQ = <<>>
  /\ backQClosed
  /\ closeSignal' = closeSignal - 1
  /\ closed' = TRUE
  /\ writerPc' = "done"
  /\ UNCHANGED <<auth, reqSeq, rspSeq, backQ, backQClosed, reqWg, rspHeap,
                 multiCmd, multiCmdErr, subDone, readerPc, password,
                 written, nRead, lastCmd, lastReply, forwarded, lastHandled, pending, txHist, authSent, writeFailed,
                 slotReloadChan, reloadVars, backendVars, doReloadVars>>

\* ------------------------------------------------------------ the session
Init ==
  /\ NewSession
  /\ password \in Passwords
  /\ reqSeq = 0
  /\ reqWg = 0
  /\ pending = {}
  /\ InitDispatcher
  /\ InitDoReload
  /\ InitBackend

Next ==
  \/ ReadCommand
  \/ ReadError
  \/ ReqWgWait
  \/ CloseSignalWait
  \/ WritingLoop
  \/ WritingLoopExit

Spec == Init /\ [][Next]_vars

NextSync ==
  \/ ReadCommandSync
  \/ ReadError
  \/ ReqWgWait
  \/ CloseSignalWait
  \/ WritingLoop
  \/ WritingLoopExit

SpecSync == Init /\ [][NextSync]_vars

\* ------------------------------------------------------ the reader alone
\* the commands that matter to a transaction: MULTI, EXEC, a command that is
\* queued (SET) and one that is not (BOGUS)
TxCommands == { cmd \in Commands : cmd.name \in {"MULTI", "EXEC", "SET", "BOGUS"} }

\* ReadingLoop of a client that sends such commands, whose replies wait in
\* backQ
ReadCommandTx ==
  /\ nRead < MaxTxCmds
  /\ ReadAndHandleOf(TxCommands)

NextTx == ReadCommandTx

SpecTx == Init /\ [][NextTx]_vars

\* ------------------------------------------------------ the writer alone
\* The requests of one session, each a single request (0) or split into
\* n sub-requests sharing its seq.
Shapes == [0..(MaxReqs - 1) -> 0..MaxSubs]

\* the requests whose responses are to arrive, for the shapes sh
Requests(sh) ==
  UNION { IF sh[q] = 0 THEN { PipelineRequest(q, 0, 0) }
          ELSE { PipelineRequest(q, i, sh[q]) : i \in 0..(sh[q] - 1) } :
          q \in DOMAIN sh }

\* a session whose reader has scheduled MaxReqs pipelined requests, none of
\* them answered yet
InitWriter ==
  /\ NewSession
  /\ password = ""
  /\ \E sh \in Shapes : pending = Requests(sh)
  /\ reqSeq = MaxReqs
  /\ reqWg = Cardinality(pending)
  /\ InitDispatcher
  /\ InitDoReload
  /\ InitBackend

\* what may arrive on backQ for a request: a reply, or the error response of
\* cleanupInflight
Arrivals(req) ==
  { PipelineResponse(req, d, NULL) : d \in BackendReplies }
  \cup { PipelineResponse(req, NoData, "read error") }

\* the response to one of the outstanding requests arrives on backQ, in any
\* order
Arrive ==
  /\ writerPc = "loop"
  /\ backQ = <<>>
  /\ \E req \in pending :
       /\ \E plRsp \in Arrivals(req) : backQ' = <<plRsp>>
       /\ pending' = pending \ {req}
  /\ UNCHANGED <<auth, reqSeq, rspSeq, backQClosed, closed, reqWg, rspHeap,
                 multiCmd, multiCmdErr, subDone, readerPc, writerPc, closeSignal,
                 password, written, nRead, lastCmd, lastReply, forwarded,
                 lastHandled, txHist, authSent, writeFailed, slotReloadChan, reloadVars,
                 backendVars, doReloadVars>>

NextWriter == Arrive \/ WritingLoop

SpecWriter == InitWriter /\ [][NextWriter]_vars

\* ---------------------------------------------------------- the dispatcher
\* SlotTable.SetSlotInfo: si becomes the entry of every slot of its range
SetSlotInfo(table, si) ==
  [s \in Slots |-> IF si.start <= s /\ s <= si.end THEN si ELSE table[s]]

\* the table after every record of a snapshot was applied
RECURSIVE SetAll(_, _)
SetAll(table, infos) ==
  IF infos = <<>> THEN table ELSE SetAll(SetSlotInfo(table, Head(infos)), Tail(infos))

\* SlotTable.WriteServer / ReadServer: the endpoints a lookup may return
WriteServer(table, slot) == { table[slot].write }
ReadServer(table, slot) == { table[slot].read[i] : i \in DOMAIN table[slot].read }

\* the endpoints a snapshot refers to (newServers of handleSlotInfoChanged)
NewServers(infos) ==
  UNION { {infos[i].write} \cup { infos[i].read[j] : j \in DOMAIN infos[i].read } :
          i \in DOMAIN infos }

\* BackendServerPool.Reload: the pools of endpoints not in the new set are
\* closed and dropped
Reload(pools, newServers) == pools \cap newServers

\* the snapshots reloadTopology may return: one SlotInfo per slot, or one for
\* the whole range
Snapshots ==
  { <<SlotInfo(0, 0, x, <<x>>), SlotInfo(1, 1, y, <<y>>)>> : x \in Servers, y \in Servers }
  \cup { <<SlotInfo(0, 1, x, <<x>>)>> : x \in Servers }

\* slotsReloadLoop: the range over time.After(d.slotReloadInterval) yields the
\* one value that channel ever carries
RangeNext ==
  /\ loopPc = "range"
  /\ rangeTimer = "armed"
  /\ rangeTimer' = "drained"
  /\ loopPc' = "select"
  /\ UNCHANGED <<sessionVars, backendVars, doReloadVars, slotReloadChan, slotInfoChan, slotTable, lockHeld,
                 installing, installFrom, installAll, pool, lastLookup, triggers,
                 unserved, reloads, reloadErr>>

\* slotsReloadLoop: the select takes the pending reload signal
SelectSignal ==
  /\ loopPc = "select"
  /\ slotReloadChan > 0
  /\ slotReloadChan' = slotReloadChan - 1
  /\ unserved' = 0
  /\ loopPc' = "reload"
  /\ UNCHANGED <<sessionVars, backendVars, doReloadVars, rangeTimer, slotInfoChan, slotTable, lockHeld,
                 installing, installFrom, installAll, pool, lastLookup, triggers,
                 reloads, reloadErr>>

\* slotsReloadLoop: no signal came for periodicReloadInterval and the select
\* takes the timer
SelectPeriodic ==
  /\ loopPc = "select"
  /\ slotReloadChan = 0
  /\ loopPc' = "reload"
  /\ UNCHANGED <<sessionVars, backendVars, doReloadVars, slotReloadChan, rangeTimer, slotInfoChan, slotTable,
                 lockHeld, installing, installFrom, installAll, pool, lastLookup,
                 triggers, unserved, reloads, reloadErr>>

\* reloadTopology: [slotInfos, err], those of the last doReload it made.  A
\* doReload that fails after CLUSTER SLOTS was parsed returns the slot infos
\* with its error.
reloadTopology ==
  { [slotInfos |-> infos, err |-> NULL] : infos \in Snapshots }
  \cup { [slotInfos |-> <<>>, err |-> "reload error"] }
  \cup { [slotInfos |-> <<SlotInfo(0, 1, "b", <<"b">>)>>, err |-> "reload error"] }

\* a loop that sends whatever reloadTopology returned
sendSlotInfos_Always(res) == <<res.slotInfos>>

\* slotsReloadLoop: what the loop sends on slotInfoChan for the result of
\* reloadTopology
sendSlotInfos(res) == IF res.err # NULL THEN <<>> ELSE <<res.slotInfos>>

\* slotsReloadLoop: reloadTopology returns res, and the loop sends the
\* snapshot or logs the error
ReloadWith(res) ==
  /\ slotInfoChan' = sendSlotInfos(res)
  /\ reloads' = reloads + 1
  /\ reloadErr' = res.err
  /\ loopPc' = IF sendSlotInfos(res) = <<>> THEN "range" ELSE "send"
  /\ UNCHANGED <<sessionVars, backendVars, doReloadVars, slotReloadChan, rangeTimer,
                 slotTable, lockHeld, installing, installFrom, installAll, pool,
                 lastLookup, triggers, unserved>>

\* slotsReloadLoop: reloadTopology succeeds and the loop sends the snapshot
ReloadOk ==
  /\ loopPc = "reload"
  /\ \E res \in { x \in reloadTopology : x.err = NULL } : ReloadWith(res)

\* slotsReloadLoop: reloadTopology fails, which is logged
ReloadFailed ==
  /\ loopPc = "reload"
  /\ \E res \in { x \in reloadTopology : x.err # NULL } : ReloadWith(res)

\* Run receives the snapshot (which completes the loop's send) and
\* handleSlotInfoChanged takes d.lock
RunReceive ==
  /\ loopPc = "send"
  /\ ~lockHeld
  /\ slotInfoChan # <<>>
  /\ lockHeld' = TRUE
  /\ installing' = Head(slotInfoChan)
  /\ installAll' = Head(slotInfoChan)
  /\ installFrom' = slotTable
  /\ slotInfoChan' = <<>>
  /\ loopPc' = "range"
  /\ UNCHANGED <<sessionVars, backendVars, doReloadVars, slotReloadChan, rangeTimer, slotTable, pool,
                 lastLookup, triggers, unserved, reloads, reloadErr>>

\* handleSlotInfoChanged: one turn of its loop applies the next SlotInfo
ApplySlotInfo ==
  /\ lockHeld
  /\ installing # <<>>
  /\ slotTable' = SetSlotInfo(slotTable, Head(installing))
  /\ installing' = Tail(installing)
  /\ UNCHANGED <<sessionVars, backendVars, doReloadVars, slotReloadChan, loopPc, rangeTimer, slotInfoChan,
                 lockHeld, installFrom, installAll, pool, lastLookup, triggers,
                 unserved, reloads, reloadErr>>

\* handleSlotInfoChanged: the pool is reloaded and d.lock released
FinishInstall ==
  /\ lockHeld
  /\ installing = <<>>
  /\ pool' = Reload(pool, NewServers(installAll))
  /\ lockHeld' = FALSE
  /\ UNCHANGED <<sessionVars, backendVars, doReloadVars, slotReloadChan, loopPc, rangeTimer, slotInfoChan,
                 slotTable, installing, installFrom, installAll, lastLookup,
                 triggers, unserved, reloads, reloadErr>>

\* the table is in the middle of an install: neither the table the install
\* started from nor the table with all its records applied
PartlyInstalled ==
  /\ lockHeld
  /\ slotTable # installFrom
  /\ slotTable # SetAll(installFrom, installAll)

\* Session.Schedule of some session: the slot lookup and the pool's Get,
\* which makes the endpoint's pool when there is none
Lookup ==
  /\ \E slot \in Slots, readOnly \in BOOLEAN :
       \E server \in IF readOnly THEN ReadServer(slotTable, slot)
                                 ELSE WriteServer(slotTable, slot) :
         /\ lastLookup' = [slot |-> slot, server |-> server,
                           partial |-> PartlyInstalled]
         /\ pool' = pool \cup {server}
  /\ UNCHANGED <<sessionVars, backendVars, doReloadVars, slotReloadChan, loopPc, rangeTimer, slotInfoChan,
                 slotTable, lockHeld, installing, installFrom, installAll,
                 triggers, unserved, reloads, reloadErr>>

\* some session calls TriggerReloadSlots
Trigger ==
  /\ triggers < MaxTriggers
  /\ slotReloadChan' = TriggerReloadSlots(slotReloadChan)
  /\ triggers' = triggers + 1
  /\ unserved' = unserved + 1
  /\ UNCHANGED <<sessionVars, backendVars, doReloadVars, loopPc, rangeTimer, slotInfoChan, slotTable,
                 lockHeld, installing, installFrom, installAll, pool, lastLookup,
                 reloads, reloadErr>>

\* the steps of slotsReloadLoop
slotsReloadLoop ==
  RangeNext \/ SelectSignal \/ SelectPeriodic \/ ReloadOk \/ ReloadFailed

\* the steps of Run's receive loop with handleSlotInfoChanged
handleSlotInfoChanged == RunReceive \/ ApplySlotInfo \/ FinishInstall

InitReload ==
  /\ NewSession
  /\ password = ""
  /\ reqSeq = 0
  /\ reqWg = 0
  /\ pending = {}
  /\ InitDispatcher
  /\ InitDoReload
  /\ InitBackend

NextReload == slotsReloadLoop \/ handleSlotInfoChanged \/ Lookup \/ Trigger

SpecReload == InitReload /\ [][NextReload]_vars

\* the loop and Run are goroutines of their own: a step of theirs that stays
\* possible is taken
FairSpecReload ==
  SpecReload /\ WF_vars(slotsReloadLoop) /\ WF_vars(handleSlotInfoChanged)

\* ------------------------------------------------- one backend connection
\* how a Request of a BackendServer in use may go
BackendOutcomes == { o \in SchedOutcomes : o.get /\ o.io # "nilw" }

\* a caller that leased the BackendServer makes a Request of it and puts it back
BackendRequest ==
  /\ nReqs < MaxBackendReqs
  /\ \E o \in BackendOutcomes :
       LET req == PipelineRequest(nReqs, 0, 0)
           q == Request(backend, req, o)
       IN /\ backend' = q.tr
          /\ lastReq' = [ before |-> backend, req |-> req, sent |-> q.sent,
                          err |-> q.err, dials |-> q.dials,
                          io |-> o.io, recon |-> o.recon ]
  /\ nReqs' = nReqs + 1
  /\ UNCHANGED <<sessionVars, slotReloadChan, reloadVars, doReloadVars, sessions>>

\* NewBackendServer, whose dial went well or not
InitBackendServer ==
  /\ NewSession
  /\ password = ""
  /\ reqSeq = 0
  /\ reqWg = 0
  /\ pending = {}
  /\ InitDispatcher
  /\ InitDoReload
  /\ \E o \in { x \in SchedOutcomes : x.get } : backend = Lease(o)
  /\ lastReq = NoRequest
  /\ nReqs = 0
  /\ sessions = NoSessions

NextBackend == BackendRequest

SpecBackend == InitBackendServer /\ [][NextBackend]_vars

\* ------------------------------- sessions sharing a BackendServer
\* the request of session id: plReq.backQ is the backQ of its session
SharedRequestOf(id, seq) ==
  [seq |-> seq, subSeq |-> 0, parent |-> 0, backQ |-> id]

\* plReq.backQ <- plRsp for each response of sent, in order
RECURSIVE Deliver(_, _)
Deliver(ss, sent) ==
  IF sent = <<>> THEN ss
  ELSE Deliver([ss EXCEPT ![Head(sent).ctx.backQ].backQ = Append(@, Head(sent))],
               Tail(sent))

\* the responses that a general command of session id puts on channels:
\* those of cleanupInflight, then the reply or the response of
\* handleErrorCmd on the session's own backQ
SharedSends(id, q) ==
  q.sent \o << IF q.err = NULL THEN q.rsp
               ELSE PipelineResponse(SharedRequestOf(id, -1), Opaque, NULL) >>

\* ReadingLoop of session id handles a general command: handleGeneralCmd and
\* Schedule, with the BackendServer leased for the one Request
SharedCommand(id) ==
  /\ nReqs < MaxSharedReqs
  /\ sessions[id].pc = "read"
  /\ \E o \in { x \in SchedOutcomes : x.io # "nilw" } :
       LET req == SharedRequestOf(id, nReqs)
           q == IF o.get THEN Request(backend, req, o)
                ELSE [tr |-> backend, sent |-> <<>>, rsp |-> NoData,
                      err |-> "ERR get backend", dials |-> 0]
           sends == SharedSends(id, q)
           wg == IF q.err = NULL THEN 1 ELSE 2
       IN /\ backend' = q.tr
          /\ sessions' = Deliver([sessions EXCEPT ![id].reqWg = @ + wg,
                                                  ![id].nCmds = @ + 1], sends)
          /\ lastReq' = [ before |-> backend, req |-> req, sent |-> sends,
                          err |-> q.err, dials |-> q.dials,
                          io |-> o.io, recon |-> o.recon ]
  /\ nReqs' = nReqs + 1
  /\ UNCHANGED <<sessionVars, slotReloadChan, reloadVars, doReloadVars>>

\* WritingLoop of session id takes a response off backQ; handleResp releases
\* its wg count
SharedHandle(id) ==
  /\ sessions[id].backQ # <<>>
  /\ sessions' = [sessions EXCEPT ![id].backQ = Tail(@), ![id].reqWg = @ - 1]
  /\ UNCHANGED <<sessionVars, slotReloadChan, reloadVars, doReloadVars,
                 backend, lastReq, nReqs>>

\* ReadingLoop of session id: ReadCommand returns an error
SharedReadError(id) ==
  /\ sessions[id].pc = "read"
  /\ sessions' = [sessions EXCEPT ![id].pc = "wgWait"]
  /\ UNCHANGED <<sessionVars, slotReloadChan, reloadVars, doReloadVars,
                 backend, lastReq, nReqs>>

\* ReadingLoop of session id: reqWg.Wait() returns and backQ is closed
SharedClose(id) ==
  /\ sessions[id].pc = "wgWait"
  /\ sessions[id].reqWg = 0
  /\ sessions' = [sessions EXCEPT ![id].pc = "sigWait", ![id].closed = TRUE]
  /\ UNCHANGED <<sessionVars, slotReloadChan, reloadVars, doReloadVars,
                 backend, lastReq, nReqs>>

SharedReader ==
  /\ \E id \in SessionIds : sessions[id].pc = "read"
  /\ \E id \in SessionIds : SharedCommand(id)

SharedWriter ==
  /\ \E id \in SessionIds : sessions[id].backQ # <<>>
  /\ \E id \in SessionIds : SharedHandle(id)

SharedLeave ==
  /\ \E id \in SessionIds : sessions[id].pc = "read"
  /\ \E id \in SessionIds : SharedReadError(id)

SharedTeardown ==
  /\ \E id \in SessionIds : sessions[id].pc = "wgWait"
  /\ \E id \in SessionIds : SharedClose(id)

NextShared == SharedReader \/ SharedWriter \/ SharedLeave \/ SharedTeardown

SpecShared == InitBackendServer /\ [][NextShared]_vars

\* ------------------------------------------- doReload's rewrite of si.read
READ_PREFER_MASTER == 0
READ_PREFER_SLAVE == 1
READ_PREFER_SLAVE_IDC == 2

\* an endpoint "ip:port" is [net, host]: its first two dotted octets with
\* the dots, and the rest
Endpoint(net, host) == [net |-> net, host |-> host]
Endpoints == { Endpoint("10.4.", "1.1:7000"), Endpoint("10.4.", "1.2:7000"),
               Endpoint("10.9.", "1.1:7000") }

\* strings.HasPrefix(node, localIPPrefix); the prefix is "" when LocalIP()
\* found no address
HasPrefix(node, localIPPrefix) == localIPPrefix = "" \/ node.net = localIPPrefix
LocalIPPrefixes == {"", "10.4.", "10.9."}

\* the subsequence of the nodes of read that pass both filters
RECURSIVE FilterRead(_, _, _, _)
FilterRead(read, readPrefer, aliveNodes, localIPPrefix) ==
  IF read = <<>> THEN <<>>
  ELSE LET node == Head(read)
           rest == FilterRead(Tail(read), readPrefer, aliveNodes, localIPPrefix)
       IN IF node \notin aliveNodes THEN rest
          ELSE IF readPrefer = READ_PREFER_SLAVE_IDC /\ ~HasPrefix(node, localIPPrefix)
            THEN rest
          ELSE <<node>> \o rest

\* the rewrite that leaves si.read empty when no node passes
rewriteRead_NoFallback(si, readPrefer, aliveNodes, localIPPrefix) ==
  IF readPrefer = READ_PREFER_MASTER THEN [si EXCEPT !.read = <<si.write>>]
  ELSE [si EXCEPT !.read = FilterRead(si.read, readPrefer, aliveNodes, localIPPrefix)]

\* doReload: one turn of its loop over slotInfos, the rewrite of si.read
rewriteRead(si, readPrefer, aliveNodes, localIPPrefix) ==
  IF readPrefer = READ_PREFER_MASTER THEN [si EXCEPT !.read = <<si.write>>]
  ELSE IF readPrefer = READ_PREFER_SLAVE \/ readPrefer = READ_PREFER_SLAVE_IDC
    THEN LET readNodes == FilterRead(si.read, readPrefer, aliveNodes, localIPPrefix)
         IN [si EXCEPT !.read = IF Len(readNodes) = 0 THEN <<si.write>> ELSE readNodes]
  ELSE si

\* the slot infos CLUSTER SLOTS may give: a master and up to MaxReplicas
\* further nodes for each of up to MaxSlotInfos ranges
ParsedSlotInfos ==
  LET one == { SlotInfo(0, 0, wr, rd) :
                 wr \in Endpoints,
                 rd \in UNION { SeqsOfLen(Endpoints, n) : n \in 0..MaxReplicas } }
  IN UNION { SeqsOfLen(one, n) : n \in 1..MaxSlotInfos }

\* doReload has read CLUSTER SLOTS and CLUSTER NODES
doReloadRead ==
  /\ reloadIn = NoReload
  /\ \E infos \in ParsedSlotInfos, alive \in SUBSET Endpoints,
        prefer \in {READ_PREFER_MASTER, READ_PREFER_SLAVE, READ_PREFER_SLAVE_IDC},
        prefix \in LocalIPPrefixes :
       reloadIn' = [ slotInfos |-> infos, aliveNodes |-> alive,
                     readPrefer |-> prefer, localIPPrefix |-> prefix ]
  /\ UNCHANGED <<sessionVars, slotReloadChan, reloadVars, backendVars, reloadOut>>

\* doReload rewrites si.read of each SlotInfo and returns
doReloadRewrite ==
  /\ reloadIn # NoReload
  /\ reloadOut = <<>>
  /\ reloadOut' = [ i \in 1..Len(reloadIn.slotInfos) |->
                      rewriteRead(reloadIn.slotInfos[i], reloadIn.readPrefer,
                                  reloadIn.aliveNodes, reloadIn.localIPPrefix) ]
  /\ UNCHANGED <<sessionVars, slotReloadChan, reloadVars, backendVars, reloadIn>>

InitDoReloadAlone ==
  /\ NewSession
  /\ password = ""
  /\ reqSeq = 0
  /\ reqWg = 0
  /\ pending = {}
  /\ InitDispatcher
  /\ InitBackend
  /\ InitDoReload

NextDoReload == doReloadRead \/ doReloadRewrite

SpecDoReload == InitDoReloadAlone /\ [][NextDoReload]_vars

\* ------------------------------------------------------------------ C1
\* C1: whatever the order in which the responses of the pipelined requests
\* arrive on backQ, the replies written to the client are those of seq 0, 1,
\* 2, ... in this order and without a gap; a response whose seq is not rspSeq
\* goes to the heap and nothing is written for it then; the heap only holds
\* responses whose reply is not written, of a seq still to come while the
\* session is open; and when every response was handled
\* without an error, every request has its reply.
C1_InOrder ==
  /\ \A i \in 1..Len(written) : written[i] = i - 1
  /\ Len(written) <= rspSeq
  /\ \A p \in rspHeap : p.ctx.seq \notin { written[i] : i \in 1..Len(written) }
  /\ ~closed => (Len(written) = rspSeq /\ \A p \in rspHeap : p.ctx.seq > rspSeq)
  /\ (pending = {} /\ backQ = <<>> /\ ~closed) => written = [i \in 1..MaxReqs |-> i - 1]

C1_HeldBack ==
  (backQ # <<>> /\ backQ' = Tail(backQ) /\ Head(backQ).ctx.seq # rspSeq)
    => (rspHeap' = rspHeap \cup {Head(backQ)} /\ written' = written /\ rspSeq' = rspSeq)

C1_Ordering == []C1_InOrder /\ [][C1_HeldBack]_vars

\* the responses of seq 1 and 2 were held in the heap, and the reply of seq 2
\* was written from there after those of seq 0 and 1
C1_Witness ==
  /\ written = <<0, 1, 2>>
  /\ lastHandled.seq = 2
  /\ lastHandled.fromHeap
  /\ ~closed

\* ------------------------------------------------------------------ C2
\* C2: when the writer of an open session handles a response that carries a
\* backend transport error, handleResp returns no error for it, the session
\* stays open and a reply is written for the seq of that response.
C2_Step ==
  (~closed /\ lastHandled' # lastHandled /\ lastHandled'.transportErr
     /\ lastHandled'.parent = 0)
    => /\ lastHandled'.err = NULL
       /\ ~closed' => written' # <<>> /\ written'[Len(written')] = lastHandled'.seq

C2_TransportErrorAnswered == [][C2_Step]_vars

\* ------------------------------------------------------------------ C3
\* C3: once the reader has left its loop, the teardown is never stuck: until
\* ReadingLoop has returned, some step of the session is possible.
C3_TeardownCompletes ==
  readerPc \in {"wgWait", "sigWait"} => ENABLED Next

\* ------------------------------------------------------------------ C8
EXECABORT == Data(T_Error, "EXECABORT Transaction discarded")

\* the step is the handling of an EXEC that ends a transaction in which the
\* client sent a command of the given kind
C8_ExecAfter(bad) ==
  /\ nRead' = nRead + 1
  /\ lastCmd'.name = "EXEC"
  /\ txHist.open
  /\ bad

\* the EXEC is answered -EXECABORT, nothing is sent to a backend and the
\* session is out of the transaction
C8_Aborted ==
  /\ lastReply' = EXECABORT
  /\ forwarded' = forwarded
  /\ { multiCmd.cmds[i].id : i \in 1..Len(multiCmd.cmds) } \cap forwarded' = {}
  /\ multiCmd'.nil
  /\ ~multiCmdErr'

\* C8 as stated: a transaction in which any command that is not queueable
\* was sent, a second MULTI included, ends in -EXECABORT at its EXEC with
\* none of the buffered commands sent to a backend.
C8_AnyNonQueueable ==
  [][C8_ExecAfter(txHist.nested \/ txHist.other) => C8_Aborted]_vars

\* C8 amended: a transaction in which a command that is not queueable and is
\* not MULTI was sent ends in -EXECABORT at its EXEC, with none of the
\* buffered commands sent to a backend and the session out of the
\* transaction.
C8_NonQueueableButMulti ==
  [][C8_ExecAfter(txHist.other) => C8_Aborted]_vars

\* MULTI, a queued command, a command that is not queueable and EXEC were
\* sent, and the EXEC was answered -EXECABORT
C8_Witness ==
  /\ lastCmd.name = "EXEC"
  /\ lastReply = EXECABORT
  /\ nRead = 4
  /\ multiCmd.nil
  /\ forwarded = {}

\* ------------------------------------------------------------------ C9
\* the step is the handling of a command that requires AUTH, sent while a
\* password is configured and the client has not sent it
C9_Unauthenticated ==
  /\ nRead' = nRead + 1
  /\ password # ""
  /\ ~authSent
  /\ CmdAuthRequired(lastCmd')

\* C9: with a password configured, until the client has sent AUTH with this
\* password nothing is forwarded to a backend and the proxy is in no
\* transaction; each command requiring AUTH is answered NOAUTH by the proxy
\* itself, under one seq, with no request scheduled.
C9_NothingForwarded ==
  (password # "" /\ ~authSent) => (forwarded = {} /\ ~auth /\ multiCmd.nil)

C9_AnsweredLocally ==
  C9_Unauthenticated =>
    /\ lastReply' = Data(T_Error, NOAUTH_ERR)
    /\ forwarded' = {}
    /\ reqSeq' = reqSeq + 1
    /\ backQ' = Append(backQ, PipelineResponse(PipelineRequest(reqSeq, 0, 0),
                                               Opaque, NULL))

C9_NoForwardBeforeAuth == []C9_NothingForwarded /\ [][C9_AnsweredLocally]_vars

\* a multi-key command sent before AUTH was answered NOAUTH
C9_Witness ==
  /\ password # ""
  /\ ~authSent
  /\ lastCmd.name = "MGET"
  /\ lastReply = Data(T_Error, NOAUTH_ERR)
  /\ forwarded = {}

\* ----------------------------------------------------------------- C10
\* the responses of seq q the writer has not handled: not arrived, waiting
\* on backQ, or held in the heap
C10_Unhandled(q) ==
  { req \in pending : req.seq = q }
  \cup { backQ[i].ctx : i \in { j \in 1..Len(backQ) : backQ[j].ctx.seq = q } }
  \cup { p.ctx : p \in { h \in rspHeap : h.ctx.seq = q } }

\* C10: rspSeq is past the seq of a command, split or not, exactly when the
\* writer has handled all the responses of that seq, and the client is
\* written at most one reply for it.
C10_AdvancesWithLast ==
  \A q \in 0..(MaxReqs - 1) :
    /\ (rspSeq > q) <=> (C10_Unhandled(q) = {})
    /\ Cardinality({ i \in 1..Len(written) : written[i] = q }) <= 1

\* ------------------------------------------------------------------ C4
\* C4: the refresh loop runs for ever: a pending reload signal is taken in
\* the end, and reload attempts are made again and again.
C4_LoopKeepsRunning ==
  /\ (slotReloadChan > 0) ~> (slotReloadChan = 0)
  /\ []<>(loopPc = "reload")

\* ------------------------------------------------------------------ C5
\* C5: when two or more TriggerReloadSlots calls were made since the loop
\* last took a signal, the loop takes the one signal they left and makes a
\* reload attempt for them.
C5_OneReloadForMany ==
  (unserved >= 2) ~> (unserved = 0 /\ loopPc = "reload")

\* ------------------------------------------------------------------ C6
\* C6: the reload channel never holds more than one signal, a
\* TriggerReloadSlots call is possible whatever the loop and the other
\* callers do, and a call made while a signal is pending leaves the channel
\* as it is, whereas one made with none pending leaves one.
C6_AtMostOne ==
  /\ slotReloadChan \in 0..SlotReloadChanCap
  /\ triggers < MaxTriggers => ENABLED Trigger

C6_Dropped ==
  (triggers' = triggers + 1) =>
     /\ slotReloadChan > 0 => slotReloadChan' = slotReloadChan
     /\ slotReloadChan = 0 => slotReloadChan' = 1

C6_NonBlockingTrigger == []C6_AtMostOne /\ [][C6_Dropped]_vars

\* two calls were made with no signal taken in between, and one is pending
C6_Witness ==
  /\ unserved >= 2
  /\ slotReloadChan = 1

\* ------------------------------------------------------------------ C7
\* C7: no slot lookup of a session is made on a table to which only some of
\* the SlotInfo records of a running install have been applied.
C7_NoPartialLookup == ~lastLookup.partial

\* ----------------------------------------------------------------- C11
\* C11: when the writer of an open session handles a sub-response that
\* carries an error (a transport error or a failed redirect), the
\* coordinator of the command is given this sub-response, and when it is the
\* last one of the command the client is written the one reply of the
\* command's seq.
C11_Step ==
  (~closed /\ lastHandled' # lastHandled /\ lastHandled'.parent > 0
     /\ lastHandled'.err # NULL)
    => /\ <<lastHandled'.seq, lastHandled'.subSeq>> \in subDone'
       /\ ( /\ \A req \in pending' : req.seq # lastHandled'.seq
            /\ \A i \in 1..Len(backQ') : backQ'[i].ctx.seq # lastHandled'.seq
            /\ \A p \in rspHeap' : p.ctx.seq # lastHandled'.seq )
            => \E i \in 1..Len(written') : written'[i] = lastHandled'.seq

C11_SubErrorCompletes == [][C11_Step]_vars

\* ----------------------------------------------------------------- C12
\* C12: at any time the commands written to the connection of a
\* BackendServer are as many as the replies read from it and the requests
\* of its inflight list together.
C12_Inflight ==
  backend.writes = backend.reads + Len(backend.inflight)

\* ----------------------------------------------------------------- C18
\* the last Request met an I/O error: a missing writer, or a failed write,
\* flush or read
C18_IoError ==
  /\ nReqs > 0
  /\ (lastReq.before.w = NULL \/ lastReq.io \in {"werr", "ferr", "rerr"})

\* C18: after a Request that met an I/O error, each request that was in the
\* inflight list, the failed one included, was sent one error response, in
\* the order of the list; the list is empty; one reconnect was attempted;
\* Request returned an error whether the reconnect went well or not; and the
\* failed command was written at most once, never on the new connection.
\* A Request that met none returns no error, sends no error response and
\* attempts no reconnect.
C18_DrainOnError ==
  LET inflight == Append(lastReq.before.inflight, lastReq.req) IN
  /\ C18_IoError =>
       /\ Len(lastReq.sent) = Len(inflight)
       /\ \A i \in 1..Len(inflight) :
            lastReq.sent[i].ctx = inflight[i] /\ lastReq.sent[i].err # NULL
       /\ backend.inflight = <<>>
       /\ lastReq.dials = 1
       /\ lastReq.err # NULL
       /\ backend.writes <= lastReq.before.writes + 1
       /\ lastReq.recon => (backend.w # NULL /\ backend.writes = 0)
  /\ (nReqs > 0 /\ ~C18_IoError) =>
       (lastReq.err = NULL /\ lastReq.sent = <<>> /\ lastReq.dials = 0)

\* a Request whose read failed and whose reconnect went well returned an
\* error, after a Request that went well
C18_Witness ==
  /\ nReqs >= 2
  /\ lastReq.io = "rerr"
  /\ lastReq.recon
  /\ lastReq.err # NULL
  /\ Len(lastReq.sent) = 1

\* ----------------------------------------------------------------- C13
\* C13: in what doReload returns under any of the three policies, for any
\* slot infos and any set of alive nodes, every si.read is non-empty and
\* each of its endpoints is alive or is si.write; under READ_PREFER_MASTER
\* it is exactly <<si.write>>.
C13_ReadPreferenceClosure ==
  \A i \in 1..Len(reloadOut) :
    LET si == reloadOut[i] IN
    /\ si.read # <<>>
    /\ \A j \in 1..Len(si.read) :
         si.read[j] \in reloadIn.aliveNodes \/ si.read[j] = si.write
    /\ si.write = reloadIn.slotInfos[i].write
    /\ reloadIn.readPrefer = READ_PREFER_MASTER => si.read = <<si.write>>

\* under READ_PREFER_SLAVE_IDC an alive node of another net and a dead node
\* of the local one were both dropped, and si.read fell back to a master
\* that is not alive
C13_Witness ==
  /\ reloadOut # <<>>
  /\ reloadIn.readPrefer = READ_PREFER_SLAVE_IDC
  /\ reloadIn.localIPPrefix = "10.4."
  /\ reloadIn.slotInfos[1].read =
       <<Endpoint("10.9.", "1.1:7000"), Endpoint("10.4.", "1.2:7000")>>
  /\ reloadIn.aliveNodes = {Endpoint("10.9.", "1.1:7000")}
  /\ reloadOut[1].read = <<Endpoint("10.4.", "1.1:7000")>>

\* ----------------------------------------------------------------- C14
\* C14: when the reloadTopology of the refresh loop returns an error,
\* nothing is sent on slotInfoChan, the loop goes back to waiting, and the
\* slot table and the set of backend pools are what they were.
C14_Step ==
  (loopPc = "reload" /\ reloads' = reloads + 1 /\ reloadErr' # NULL)
    => /\ slotInfoChan' = <<>>
       /\ loopPc' = "range"
       /\ slotTable' = slotTable
       /\ pool' = pool
       /\ ~lockHeld' /\ installing' = <<>>

C14_FailedReloadDiscarded == [][C14_Step]_vars

\* the loop made a reloadTopology that failed, after sessions had looked up
\* slots, and the table is the one of InitSlotTable
C14_Witness ==
  /\ reloads = 1
  /\ reloadErr # NULL
  /\ loopPc = "range"
  /\ pool # {}
  /\ slotTable = [s \in Slots |-> SlotInfo(s, s, "a", <<"a">>)]

\* ----------------------------------------------------------------- C15
\* the reply that the backend gave for the response the writer has just
\* handled
C15_Moved == ~lastHandled'.transportErr /\ lastHandled'.reply = Data(T_Error, MOVED)
C15_Ask == ~lastHandled'.transportErr /\ lastHandled'.reply = Data(T_Error, ASK)
C15_Other ==
  ~lastHandled'.transportErr /\ lastHandled'.reply \notin {Data(T_Error, MOVED), Data(T_Error, ASK)}

\* C15: of a response that the writer handles: a -MOVED reply asks for a
\* slot reload and is redirected, the command alone being written to the
\* named server and the reply read from it taking the place of the -MOVED
\* error; an -ASK reply is redirected with ASKING written before the command
\* and its acknowledgement read and dropped before the reply, and asks for
\* no reload; any other reply is neither redirected nor asks for a reload.
C15_Step ==
  lastHandled' # lastHandled =>
    /\ C15_Moved =>
         /\ lastHandled'.reload /\ slotReloadChan' >= 1
         /\ lastHandled'.redirect = "moved"
         /\ \A i \in 1..Len(lastHandled'.wire) :
              lastHandled'.wire[i] \in {"dial", "write cmd", "read reply"}
         /\ lastHandled'.err = NULL =>
              /\ lastHandled'.wire = <<"dial", "write cmd", "read reply">>
              /\ lastHandled'.substituted
    /\ C15_Ask =>
         /\ ~lastHandled'.reload
         /\ lastHandled'.redirect = "ask"
         /\ \A i \in 1..Len(lastHandled'.wire) :
              lastHandled'.wire[i] = "write cmd" =>
                i > 1 /\ lastHandled'.wire[i - 1] = "write ASKING"
         /\ lastHandled'.err = NULL =>
              /\ lastHandled'.wire =
                   <<"dial", "write ASKING", "write cmd", "read ack", "read reply">>
              /\ lastHandled'.substituted
    /\ C15_Other =>
         /\ lastHandled'.redirect = "none" /\ lastHandled'.wire = <<>>
         /\ ~lastHandled'.reload /\ ~lastHandled'.substituted

C15_RedirectProtocol == [][C15_Step]_vars

\* an -ASK reply was redirected and the reply of the named server written
C15_Witness ==
  /\ lastHandled.reply = Data(T_Error, ASK) /\ ~lastHandled.transportErr
  /\ lastHandled.err = NULL /\ lastHandled.substituted
  /\ \E i \in 1..Len(written) : written[i] = lastHandled.seq

\* ----------------------------------------------------------------- C16
\* C16: when the writer of an open session handles a -MOVED or -ASK reply
\* and the redirection fails (the dial, a write or a read), a reply is
\* written for the seq of that response and the session is not closed.
C16_Step ==
  (~closed /\ lastHandled' # lastHandled /\ lastHandled'.parent = 0
     /\ lastHandled'.redirect \in {"moved", "ask"}
     /\ Len(lastHandled'.wire) < Len(RedirectSteps(lastHandled'.redirect = "ask")))
    => /\ ~closed'
       /\ \E i \in 1..Len(written') : written'[i] = lastHandled'.seq

C16_RedirectErrorAnswered == [][C16_Step]_vars

\* ----------------------------------------------------------------- C17
\* C17: when the reader has handled k commands, k sequence numbers have been
\* taken: reqSeq = k.
C17_OneSeqPerCommand == reqSeq = nRead

\* ----------------------------------------------------------------- C19
\* C19: after a write to the client has failed, every response that was
\* enqueued is taken off backQ and has its wg count released: once the reader
\* has left its loop and backQ is empty, no response is still held in the
\* heap, where none has had its wg.Done yet.
C19_ConsumedAndReleased ==
  (writeFailed /\ readerPc = "wgWait" /\ backQ = <<>>) => rspHeap = {}

\* ----------------------------------------------------------------- C20
\* C20: auth changes only when a command is handled, and never from TRUE to
\* FALSE. Outside a transaction, AUTH with the configured password sets auth
\* and is answered +OK; AUTH with another password is answered
\* -ERR invalid password and leaves auth as it was; no command but AUTH
\* changes auth.
C20_Step ==
  /\ auth => auth'
  /\ nRead' = nRead => auth' = auth
  /\ nRead' # nRead =>
       /\ lastCmd'.name # "AUTH" => auth' = auth
       /\ (lastCmd'.name = "AUTH" /\ Len(lastCmd'.args) = 1 /\ ~txHist.open) =>
            IF lastCmd'.args[1] = password
              THEN auth' /\ lastReply' = Data(T_SimpleString, OK)
              ELSE auth' = auth /\ lastReply' = Data(T_Error, AUTH_CMD_ERR)

C20_AuthTransitions == [][C20_Step]_vars

\* an authenticated client has sent AUTH with a wrong password, was refused
\* and is still authenticated
C20_Witness ==
  /\ password # ""
  /\ auth
  /\ lastCmd.name = "AUTH" /\ lastCmd.args = <<"wrong">>
  /\ lastReply = Data(T_Error, AUTH_CMD_ERR)

\* ----------------------------------------------------------------- C21
\* C21: whatever the order in which the responses arrive, handleResp is only
\* given a response whose seq is the rspSeq of that moment, so that its
\* panic("impossible") is never reached and the writer never stops on it.
C21_Step ==
  /\ writerPc' # "panic"
  /\ lastHandled' # lastHandled =>
       /\ lastHandled'.seq = lastHandled'.expected
       /\ lastHandled'.err # "panic"

C21_PanicUnreachable == [][C21_Step]_vars

\* a sub-response was popped from the heap and handled while another
\* response is still held back
C21_Witness ==
  /\ lastHandled.fromHeap
  /\ lastHandled.parent > 1
  /\ lastHandled.seq = lastHandled.expected
  /\ rspHeap # {}

\* ----------------------------------------------------------------- C22
\* the step is the handling of an EXEC that is answered -EXECABORT
C22_ExecAborted ==
  /\ nRead' = nRead + 1
  /\ lastCmd'.name = "EXEC"
  /\ lastReply' = EXECABORT

\* the step is the handling of an EXEC
C22_Exec ==
  /\ nRead' = nRead + 1
  /\ lastCmd'.name = "EXEC"
  /\ ~(CmdAuthRequired(lastCmd') /\ password # "" /\ ~authSent)

\* C22: multiCmdErr is set only while a MULTI buffer is open; the handling
\* of an EXEC leaves no buffer and no flag; and an EXEC is answered
\* -EXECABORT only when a command that is not queueable was sent in the
\* transaction it ends, not in an earlier one.
C22_Step ==
  /\ C22_Exec => multiCmd'.nil /\ ~multiCmdErr'
  /\ C22_ExecAborted => txHist.open /\ txHist.other

C22_AbortFlagWithinTransaction ==
  /\ [](multiCmdErr => ~multiCmd.nil)
  /\ [][C22_Step]_vars

\* a transaction was aborted for a bad command, and the EXEC of the next
\* transaction, of queueable commands only, was not answered -EXECABORT
C22_Witness ==
  /\ txHist.earlierBad
  /\ ~txHist.open
  /\ lastCmd.name = "EXEC"
  /\ lastReply = Data("*", "exec replies")
  /\ forwarded # {}
  /\ multiCmd.nil /\ ~multiCmdErr

\* ----------------------------------------------------------------- C23
\* C23: with sessions sharing a BackendServer through the pool, every
\* response that a command puts on a backQ (the error responses of
\* cleanupInflight, the reply, the response of handleErrorCmd) goes to the
\* backQ of a session whose reader has not closed it yet; and a closed backQ
\* gets nothing more.
C23_Step ==
  /\ nReqs' # nReqs =>
       \A i \in 1..Len(lastReq'.sent) :
         /\ ~sessions[lastReq'.sent[i].ctx.backQ].closed
         /\ sessions[lastReq'.sent[i].ctx.backQ].pc = "read"
  /\ \A id \in SessionIds :
       sessions[id].closed =>
         Len(sessions'[id].backQ) <= Len(sessions[id].backQ)

C23_NoSendAfterClose == [][C23_Step]_vars

\* one session has closed its backQ, and then a Request of the other one on
\* the same BackendServer failed and had its inflight list cleaned up
C23_Witness ==
  /\ nReqs >= 2
  /\ \E id \in SessionIds :
       /\ sessions[id].closed
       /\ sessions[id].nCmds > 0
       /\ lastReq.req.backQ # id
  /\ lastReq.io = "rerr"
  /\ Len(lastReq.sent) = 2

====
